---- MODULE Spec2Model ----
(***************************************************************************)
(* Model of src/src/main.rs: the wine-quality decision-tree example.       *)
(*                                                                         *)
(* main calls decision_tree_classification_linear_scaler() and then        *)
(* decision_tree_classification().  Each routine seeds a SmallRng with 42, *)
(* loads the embedded gzip CSV, shuffles, splits at ratio 0.8, (the first  *)
(* routine standardises the features,) fits a Gini and an Entropy tree,    *)
(* scores both on the test partition and writes the Gini tree to           *)
(* decision_tree_example.tex.                                              *)
(*                                                                         *)
(* Conventions.                                                            *)
(*  - An f64 is a record [nan, v]; v counts hundredths (Unit = 1.0).        *)
(*  - The embedded file is an input: Init draws its rows from RowKinds.    *)
(*  - Calls into the crates (csv, flate2, ndarray-csv, linfa, rand, std)   *)
(*    are modelled at their call site by what the crate does there; a call *)
(*    that returns a Result and depends on the environment or on the       *)
(*    opaque tree induction has both outcomes.                             *)
(*  - The generator is a stand-in for SmallRng: a pure function of its     *)
(*    state, as SmallRng is, on a 16-bit state instead of 256 bits.        *)
(*  - A routine's locals keep their last value after the routine returns,  *)
(*    so that the two routines can be compared.                            *)
(***************************************************************************)
EXTENDS Integers, Sequences, FiniteSets, TLC

VARIABLES
    input,          \* the embedded bytes: gzip framing, CSV content, rows
    file,           \* decision_tree_example.tex: whether it exists, its content
    cur,            \* where main is: "main", "scaled", "unscaled", "exit"
    pc,             \* the statement the current routine is about to run
    status,         \* "running", "exit_ok" or "panicked"
    rng,            \* the routine's SmallRng state
    dataset,        \* the temporary of winequality().shuffle(..)
    train, test,    \* per routine: the two partitions of split_with_ratio
    scaler,         \* the fitted LinearScaler (scaled routine)
    train_pre, test_pre,            \* the scaled partitions (scaled routine)
    gini_model, entropy_model,      \* per routine: the fitted trees
    pred_y,         \* the prediction the routine scores next
    ret,            \* per routine: what it returned to main
    stdout,         \* the lines printed so far
    trace,          \* history: the stages executed, with their outcome
    file_at_entry   \* history: per routine, file when the routine started

vars == <<input, file, cur, pc, status, rng, dataset, train, test, scaler,
          train_pre, test_pre, gini_model, entropy_model, pred_y, ret,
          stdout, trace, file_at_entry>>

-----------------------------------------------------------------------------
(* Bounds and program constants *)

MaxRows == 5

NFeatures == 11
LabelColumn == 11
Seed == 42
RatioNum == 8
RatioDen == 10
MaxDepth == 100
GiniMinWeight == 1
EntropyMinWeight == 10

Unit == 10 * 10

Routines == {"scaled", "unscaled"}

F64(x) == [nan |-> FALSE, v |-> x]
NaN == [nan |-> TRUE, v |-> 0]

\* The kinds of data row the embedded file may hold: feature value, label.
RowKinds ==
    { [f |-> F64(1 * Unit), y |-> F64(5 * Unit)],
      [f |-> F64(3 * Unit), y |-> F64(0 - Unit)],
      [f |-> F64(2 * Unit), y |-> NaN] }

feature_names ==
    << "fixed acidity", "volatile acidity", "citric acid", "residual sugar",
       "chlorides", "free sulfur dioxide", "total sulfur dioxide", "density",
       "pH", "sulphates", "alcohol" >>

-----------------------------------------------------------------------------
(* Sequence helpers *)

Swap(s, i, j) == [s EXCEPT ![i] = s[j], ![j] = s[i]]

Select(s, idx) == [k \in 1..Len(idx) |-> s[idx[k]]]

RECURSIVE SumSeq(_)
SumSeq(s) == IF s = <<>> THEN 0 ELSE Head(s) + SumSeq(Tail(s))

\* The integer square root: the r in lo..hi with r * r <= x < (r + 1) * (r + 1).
RECURSIVE SqrtBetween(_, _, _)
SqrtBetween(lo, hi, x) ==
    IF lo >= hi THEN lo
    ELSE LET mid == (lo + hi + 1) \div 2
         IN IF mid * mid <= x THEN SqrtBetween(mid, hi, x)
                              ELSE SqrtBetween(lo, mid - 1, x)

ISqrt(x) == SqrtBetween(0, x, x)

CeilDiv(a, b) == (a + b - 1) \div b

-----------------------------------------------------------------------------
(* Decoding: array_from_csv, array_from_csv_gz *)

\* The matrix a well-formed file decodes to: row i, column j (0-based).
Cell(row, j) == IF j < NFeatures THEN row.f
                ELSE IF j = LabelColumn THEN row.y ELSE F64(0)

Matrix(in) ==
    [i \in 1..Len(in.rows) |-> [j \in 1..in.ncols |-> Cell(in.rows[i], j - 1)]]

\* array_from_csv: the csv reader's error kind for malformed content, or
\* the matrix.  A read error of the underlying stream comes back as the
\* csv error of kind Io.
array_from_csv(stream, in) ==
    IF stream.io_error
        THEN [ok |-> FALSE, err |-> [type |-> "ReadError", variant |-> "Csv",
                                     kind |-> "Io"]]
    ELSE IF in.content = "ragged"
        THEN [ok |-> FALSE, err |-> [type |-> "ReadError", variant |-> "Csv",
                                     kind |-> "UnequalLengths"]]
    ELSE IF in.content = "non_numeric"
        THEN [ok |-> FALSE, err |-> [type |-> "ReadError", variant |-> "Csv",
                                     kind |-> "Deserialize"]]
    ELSE [ok |-> TRUE, array |-> Matrix(in)]

\* GzDecoder::new never fails; malformed framing fails the first read.
GzDecoder(in) == [io_error |-> in.gz = "bad_framing"]

\* Faulty variant: every failure comes back as one and the same decode error.
array_from_csv_gz_collapsed(in) ==
    LET res == array_from_csv(GzDecoder(in), in)
    IN IF res.ok THEN res
       ELSE [ok |-> FALSE, err |-> [type |-> "ReadError", variant |-> "Csv",
                                    kind |-> "Deserialize"]]

array_from_csv_gz(in) == array_from_csv(GzDecoder(in), in)

-----------------------------------------------------------------------------
(* Loading: winequality *)

\* `*x as usize`: NaN gives 0, a negative value saturates to 0, a fraction
\* is truncated.
CastUsize(x) == IF x.nan THEN 0 ELSE IF x.v < 0 THEN 0 ELSE x.v \div Unit

NoDataset == [ids |-> <<>>, records |-> <<>>, targets |-> <<>>,
              feature_names |-> <<>>]

nsamples(ds) == Len(ds.records)

\* slice(s![.., 0..11]) and column(11) panic on a narrower matrix.
SliceInBounds(array) ==
    /\ Len(array) > 0
    /\ \A i \in 1..Len(array) : Len(array[i]) > LabelColumn

winequality(array) ==
    [ids |-> [i \in 1..Len(array) |-> i],
     records |-> [i \in 1..Len(array) |-> SubSeq(array[i], 1, NFeatures)],
     targets |-> [i \in 1..Len(array) |-> CastUsize(array[i][LabelColumn + 1])],
     feature_names |-> feature_names]

-----------------------------------------------------------------------------
(* Shuffle and split *)

seed_from_u64(s) == s % 65536

NextRng(x) == (x * 25173 + 13849) % 65536

\* gen_index(rng, ubound): an index below ubound from the state's high byte.
gen_index(g, ubound) == (g \div 256) % ubound

\* SliceRandom::shuffle: for i in (1..len).rev() { swap(i, gen_index(i + 1)) }
RECURSIVE ShuffleFrom(_, _, _)
ShuffleFrom(idx, g, i) ==
    IF i < 2 THEN [indices |-> idx, rng |-> g]
    ELSE LET g2 == NextRng(g)
             j == 1 + gen_index(g2, i)
         IN ShuffleFrom(Swap(idx, i, j), g2, i - 1)

\* Dataset::shuffle: permute 0..nsamples, select rows and targets by it.
\* (ids name the file's row a sample came from; they are history only.)
shuffle(ds, g) ==
    LET sh == ShuffleFrom([i \in 1..nsamples(ds) |-> i], g, nsamples(ds))
    IN [dataset |-> [ids |-> Select(ds.ids, sh.indices),
                     records |-> Select(ds.records, sh.indices),
                     targets |-> Select(ds.targets, sh.indices),
                     feature_names |-> ds.feature_names],
        rng |-> sh.rng]

\* n1 = (nsamples as f32 * ratio).ceil().  At these sizes the f32 product is
\* the exact integer whenever nsamples * ratio is one, and is at least 0.1
\* away from an integer otherwise, so its ceiling is the rational ceiling.
\* Faulty variant: the split point rounded down.
SplitPointFloor(n, num, den) == (n * num) \div den

SplitPoint(n, num, den) == CeilDiv(n * num, den)

Take(ds, a, b) ==
    [ids |-> SubSeq(ds.ids, a, b),
     records |-> SubSeq(ds.records, a, b),
     targets |-> SubSeq(ds.targets, a, b),
     feature_names |-> ds.feature_names]

\* Faulty variant: the second part starts one sample early.
split_with_ratio_overlap(ds, num, den) ==
    LET n1 == SplitPoint(nsamples(ds), num, den)
    IN <<Take(ds, 1, n1), Take(ds, n1, nsamples(ds))>>

split_with_ratio(ds, num, den) ==
    LET n1 == SplitPoint(nsamples(ds), num, den)
    IN <<Take(ds, 1, n1), Take(ds, n1 + 1, nsamples(ds))>>

-----------------------------------------------------------------------------
(* Preprocessing: LinearScaler::standard() *)

Column(ds, j) == [i \in 1..nsamples(ds) |-> ds.records[i][j].v]

Mean(col) == SumSeq(col) \div Len(col)

StdDev(col) ==
    LET m == Mean(col)
        sq == [i \in 1..Len(col) |-> (col[i] - m) * (col[i] - m)]
    IN ISqrt(SumSeq(sq) \div Len(col))

\* Faulty variant: the statistics are computed from train and test together.
FitInputAll(tr, te) ==
    [ids |-> tr.ids \o te.ids,
     records |-> tr.records \o te.records,
     targets |-> tr.targets \o te.targets,
     feature_names |-> tr.feature_names]

\* The dataset whose columns the scaler's statistics are computed from.
FitInput(tr, te) == tr

\* fit: per column the mean and the standard deviation; a constant column
\* gets the scale 1.0.
LinearScalerFit(ds) ==
    [offsets |-> [j \in 1..NFeatures |-> Mean(Column(ds, j))],
     scales |-> [j \in 1..NFeatures |->
                    LET sd == StdDev(Column(ds, j))
                    IN IF sd = 0 THEN Unit ELSE sd]]

ScaleValue(x, offset, scale) ==
    IF x.nan THEN x ELSE F64(((x.v - offset) * Unit) \div scale)

\* transform: new records, the targets and feature names moved over.
transform(sc, ds) ==
    [ids |-> ds.ids,
     records |-> [i \in 1..nsamples(ds) |->
                    [j \in 1..NFeatures |->
                        ScaleValue(ds.records[i][j], sc.offsets[j], sc.scales[j])]],
     targets |-> ds.targets,
     feature_names |-> ds.feature_names]

NoScaler == [offsets |-> <<>>, scales |-> <<>>]

-----------------------------------------------------------------------------
(* Model pipeline: DecisionTree, predict, confusion_matrix, export_to_tikz *)

\* Faulty variant: the criterion passed is ignored and every tree is a Gini tree.
DecisionTreeFitGini(criterion, min_weight, ds) ==
    [criterion |-> "Gini", max_depth |-> MaxDepth,
     min_weight_split |-> min_weight, min_weight_leaf |-> min_weight,
     fitted_on |-> ds]

\* The fitted tree is opaque: it is determined by its parameters and the
\* dataset it was fitted on.
DecisionTreeFit(criterion, min_weight, ds) ==
    [criterion |-> criterion, max_depth |-> MaxDepth,
     min_weight_split |-> min_weight, min_weight_leaf |-> min_weight,
     fitted_on |-> ds]

NoModel == [criterion |-> "none", max_depth |-> 0, min_weight_split |-> 0,
            min_weight_leaf |-> 0, fitted_on |-> NoDataset]

predict(model, ds) == [criterion |-> model.criterion, rows |-> ds.ids]

NoPred == [criterion |-> "none", rows |-> <<>>]

\* gini_model.export_to_tikz().with_legend().to_string()
export_to_tikz(model) == [legend |-> TRUE, tree |-> model]

\* A file left over from an earlier run.
OldFile == [exists |-> TRUE, content |-> <<export_to_tikz(NoModel)>>]
Absent == [exists |-> FALSE, content |-> <<>>]

Line(kind, criterion) == [kind |-> kind, criterion |-> criterion]

\* detail: the criterion of a fit, prediction or score; the error kind of a
\* failed decode.
Event(r, stage, detail, ok) ==
    [routine |-> r, stage |-> stage, detail |-> detail, ok |-> ok]

\* The dataset a routine fits on and the one it scores on.
TrainOf(r) == IF r = "scaled" THEN train_pre ELSE train[r]
TestOf(r) == IF r = "scaled" THEN test_pre ELSE test[r]

\* The line of main that follows the call of routine r.
AfterCall(r) == IF r = "scaled" THEN "line200" ELSE "line201"

-----------------------------------------------------------------------------
(* Initial state *)

GoodInputs ==
    { [gz |-> "ok", content |-> "ok", ncols |-> c, rows |-> rows] :
        c \in {NFeatures, NFeatures + 1},
        rows \in UNION { [1..n -> RowKinds] : n \in 1..MaxRows } }

BadInputs ==
    { [gz |-> "bad_framing", content |-> "ok", ncols |-> 0, rows |-> <<>>],
      [gz |-> "ok", content |-> "ragged", ncols |-> 0, rows |-> <<>>],
      [gz |-> "ok", content |-> "non_numeric", ncols |-> 0, rows |-> <<>>] }

Init ==
    /\ input \in GoodInputs \cup BadInputs
    /\ file \in {Absent, OldFile}
    /\ cur = "main"
    /\ pc = "line199"
    /\ status = "running"
    /\ rng = 0
    /\ dataset = NoDataset
    /\ train = [r \in Routines |-> NoDataset]
    /\ test = [r \in Routines |-> NoDataset]
    /\ scaler = NoScaler
    /\ train_pre = NoDataset
    /\ test_pre = NoDataset
    /\ gini_model = [r \in Routines |-> NoModel]
    /\ entropy_model = [r \in Routines |-> NoModel]
    /\ pred_y = NoPred
    /\ ret = [r \in Routines |-> "none"]
    /\ stdout = <<>>
    /\ trace = <<>>
    /\ file_at_entry = [r \in Routines |-> Absent]

-----------------------------------------------------------------------------
(* Control flow shared by the statements of a routine *)

InRoutine(r, at) == status = "running" /\ cur = r /\ pc = at

\* .unwrap() on an Err: the thread panics and the process ends.
Panic(r, stage, detail) ==
    /\ status' = "panicked"
    /\ cur' = "exit"
    /\ pc' = "exited"
    /\ trace' = Append(trace, Event(r, stage, detail, FALSE))

\* `?` on an Err: the routine returns the error to main.
ReturnErr(r, stage, detail) ==
    /\ ret' = [ret EXCEPT ![r] = "Err"]
    /\ cur' = "main"
    /\ pc' = AfterCall(r)
    /\ trace' = Append(trace, Event(r, stage, detail, FALSE))

Step(r, stage, detail, next) ==
    /\ pc' = next
    /\ trace' = Append(trace, Event(r, stage, detail, TRUE))
    /\ UNCHANGED <<cur, status>>

-----------------------------------------------------------------------------
(* main *)

\* line 199: decision_tree_classification_linear_scaler();
MainCallScaled ==
    /\ status = "running" /\ cur = "main" /\ pc = "line199"
    /\ cur' = "scaled"
    /\ pc' = "seed"
    /\ file_at_entry' = [file_at_entry EXCEPT !["scaled"] = file]
    /\ UNCHANGED <<input, file, status, rng, dataset, train, test, scaler,
                   train_pre, test_pre, gini_model, entropy_model, pred_y,
                   ret, stdout, trace>>

\* line 200: the Result of line 199 was dropped unread;
\* decision_tree_classification();
MainCallUnscaled ==
    /\ status = "running" /\ cur = "main" /\ pc = "line200"
    /\ cur' = "unscaled"
    /\ pc' = "seed"
    /\ file_at_entry' = [file_at_entry EXCEPT !["unscaled"] = file]
    /\ UNCHANGED <<input, file, status, rng, dataset, train, test, scaler,
                   train_pre, test_pre, gini_model, entropy_model, pred_y,
                   ret, stdout, trace>>

\* line 201: the second Result is dropped too and main returns ().
MainExit ==
    /\ status = "running" /\ cur = "main" /\ pc = "line201"
    /\ status' = "exit_ok"
    /\ cur' = "exit"
    /\ pc' = "exited"
    /\ UNCHANGED <<input, file, rng, dataset, train, test, scaler, train_pre,
                   test_pre, gini_model, entropy_model, pred_y, ret, stdout,
                   trace, file_at_entry>>

-----------------------------------------------------------------------------
(* Load, shuffle, split *)

\* Faulty variant: one generator for the whole run, seeded by the first routine and
\* carried on by the second.
SeedRngShared(r) ==
    /\ InRoutine(r, "seed")
    /\ rng' = IF r = "scaled" THEN seed_from_u64(Seed) ELSE rng
    /\ pc' = "load"
    /\ UNCHANGED <<input, file, cur, status, dataset, train, test, scaler,
                   train_pre, test_pre, gini_model, entropy_model, pred_y,
                   ret, stdout, trace, file_at_entry>>

\* let mut rng = SmallRng::seed_from_u64(42);
SeedRng(r) ==
    /\ InRoutine(r, "seed")
    /\ rng' = seed_from_u64(Seed)
    /\ pc' = "load"
    /\ UNCHANGED <<input, file, cur, status, dataset, train, test, scaler,
                   train_pre, test_pre, gini_model, entropy_model, pred_y,
                   ret, stdout, trace, file_at_entry>>

\* winequality(): decode (unwrap), slice, cast the labels, name the features.
Load(r) ==
    /\ InRoutine(r, "load")
    /\ LET decoded == array_from_csv_gz(input)
       IN IF ~decoded.ok
              THEN /\ Panic(r, "decode", decoded.err.kind)
                   /\ UNCHANGED dataset
          ELSE IF ~SliceInBounds(decoded.array)
              THEN /\ status' = "panicked"
                   /\ cur' = "exit"
                   /\ pc' = "exited"
                   /\ trace' = trace \o <<Event(r, "decode", "none", TRUE),
                                          Event(r, "load", "none", FALSE)>>
                   /\ UNCHANGED dataset
          ELSE /\ dataset' = winequality(decoded.array)
               /\ pc' = "shuffle"
               /\ trace' = trace \o <<Event(r, "decode", "none", TRUE),
                                      Event(r, "load", "none", TRUE)>>
               /\ UNCHANGED <<cur, status>>
    /\ UNCHANGED <<input, file, rng, train, test, scaler, train_pre,
                   test_pre, gini_model, entropy_model, pred_y, ret, stdout,
                   file_at_entry>>

\* .shuffle(&mut rng)
Shuffle(r) ==
    /\ InRoutine(r, "shuffle")
    /\ LET sh == shuffle(dataset, rng)
       IN /\ dataset' = sh.dataset
          /\ rng' = sh.rng
    /\ Step(r, "shuffle", "none", "split")
    /\ UNCHANGED <<input, file, train, test, scaler, train_pre, test_pre,
                   gini_model, entropy_model, pred_y, ret, stdout,
                   file_at_entry>>

\* let (train, test) = ... .split_with_ratio(0.8);
Split(r) ==
    /\ InRoutine(r, "split")
    /\ LET parts == split_with_ratio(dataset, RatioNum, RatioDen)
       IN /\ train' = [train EXCEPT ![r] = parts[1]]
          /\ test' = [test EXCEPT ![r] = parts[2]]
    /\ dataset' = NoDataset
    /\ Step(r, "split", "none", IF r = "scaled" THEN "scaler_fit" ELSE "gini_fit")
    /\ UNCHANGED <<input, file, rng, scaler, train_pre, test_pre, gini_model,
                   entropy_model, pred_y, ret, stdout, file_at_entry>>

-----------------------------------------------------------------------------
(* Preprocessing (scaled routine only) *)

\* let scaler = LinearScaler::standard().fit(&train).unwrap();
\* fit fails on a dataset without samples.
ScalerFit ==
    /\ InRoutine("scaled", "scaler_fit")
    /\ IF nsamples(FitInput(train["scaled"], test["scaled"])) = 0
           THEN /\ Panic("scaled", "scaler_fit", "none")
                /\ UNCHANGED scaler
           ELSE /\ scaler' = LinearScalerFit(FitInput(train["scaled"],
                                                      test["scaled"]))
                /\ Step("scaled", "scaler_fit", "none", "transform_train")
    /\ UNCHANGED <<input, file, rng, dataset, train, test, train_pre,
                   test_pre, gini_model, entropy_model, pred_y, ret, stdout,
                   file_at_entry>>

\* let train_pre = scaler.transform(train);
TransformTrain ==
    /\ InRoutine("scaled", "transform_train")
    /\ train_pre' = transform(scaler, train["scaled"])
    /\ Step("scaled", "transform", "train", "transform_test")
    /\ UNCHANGED <<input, file, rng, dataset, train, test, scaler, test_pre,
                   gini_model, entropy_model, pred_y, ret, stdout,
                   file_at_entry>>

\* let test_pre = scaler.transform(test);
TransformTest ==
    /\ InRoutine("scaled", "transform_test")
    /\ test_pre' = transform(scaler, test["scaled"])
    /\ Step("scaled", "transform", "test", "gini_fit")
    /\ UNCHANGED <<input, file, rng, dataset, train, test, scaler, train_pre,
                   gini_model, entropy_model, pred_y, ret, stdout,
                   file_at_entry>>

-----------------------------------------------------------------------------
(* Model pipeline *)

\* (unscaled: println "Training model with Gini criterion ...")
\* let gini_model = DecisionTree::params()...fit(&train)?;
GiniFit(r) ==
    /\ InRoutine(r, "gini_fit")
    /\ stdout' = IF r = "unscaled"
                     THEN Append(stdout, Line("training", "Gini"))
                     ELSE stdout
    /\ \E ok \in BOOLEAN :
        IF ok
            THEN /\ gini_model' = [gini_model EXCEPT ![r] =
                        DecisionTreeFit("Gini", GiniMinWeight, TrainOf(r))]
                 /\ Step(r, "fit", gini_model'[r].criterion, "gini_predict")
                 /\ UNCHANGED ret
            ELSE /\ ReturnErr(r, "fit", "Gini")
                 /\ UNCHANGED <<gini_model, status>>
    /\ UNCHANGED <<input, file, rng, dataset, train, test, scaler, train_pre,
                   test_pre, entropy_model, pred_y, file_at_entry>>

\* let gini_pred_y = gini_model.predict(&test);
GiniPredict(r) ==
    /\ InRoutine(r, "gini_predict")
    /\ pred_y' = predict(gini_model[r], TestOf(r))
    /\ Step(r, "predict", pred_y'.criterion, "gini_cm")
    /\ UNCHANGED <<input, file, rng, dataset, train, test, scaler, train_pre,
                   test_pre, gini_model, entropy_model, ret, stdout,
                   file_at_entry>>

\* The lines printed once a confusion matrix is there.
Report(criterion) ==
    << Line("confusion matrix", criterion), Line("accuracy", criterion),
       Line("features", criterion) >>

\* let cm = gini_pred_y.confusion_matrix(&test)?; and the three println!
GiniConfusionMatrix(r) ==
    /\ InRoutine(r, "gini_cm")
    /\ \E ok \in BOOLEAN :
        IF ok
            THEN /\ stdout' = stdout \o Report(pred_y.criterion)
                 /\ Step(r, "confusion_matrix", pred_y.criterion, "entropy_fit")
                 /\ UNCHANGED ret
            ELSE /\ ReturnErr(r, "confusion_matrix", pred_y.criterion)
                 /\ UNCHANGED <<stdout, status>>
    /\ UNCHANGED <<input, file, rng, dataset, train, test, scaler, train_pre,
                   test_pre, gini_model, entropy_model, pred_y, file_at_entry>>

\* println "Training model with entropy criterion ..."
\* let entropy_model = DecisionTree::params()...fit(&train)?;
EntropyFit(r) ==
    /\ InRoutine(r, "entropy_fit")
    /\ stdout' = Append(stdout, Line("training", "Entropy"))
    /\ \E ok \in BOOLEAN :
        IF ok
            THEN /\ entropy_model' = [entropy_model EXCEPT ![r] =
                        DecisionTreeFit("Entropy", EntropyMinWeight, TrainOf(r))]
                 /\ Step(r, "fit", entropy_model'[r].criterion,
                         "entropy_predict")
                 /\ UNCHANGED ret
            ELSE /\ ReturnErr(r, "fit", "Entropy")
                 /\ UNCHANGED <<entropy_model, status>>
    /\ UNCHANGED <<input, file, rng, dataset, train, test, scaler, train_pre,
                   test_pre, gini_model, pred_y, file_at_entry>>

\* let entropy_pred_y = entropy_model.predict(&test);
EntropyPredict(r) ==
    /\ InRoutine(r, "entropy_predict")
    /\ pred_y' = predict(entropy_model[r], TestOf(r))
    /\ Step(r, "predict", pred_y'.criterion, "entropy_cm")
    /\ UNCHANGED <<input, file, rng, dataset, train, test, scaler, train_pre,
                   test_pre, gini_model, entropy_model, ret, stdout,
                   file_at_entry>>

\* Faulty variant: the report file is created before the last `?`.
EntropyConfusionMatrixCreateFirst(r) ==
    /\ InRoutine(r, "entropy_cm")
    /\ file' = [exists |-> TRUE, content |-> <<>>]
    /\ \E ok \in BOOLEAN :
        IF ok
            THEN /\ stdout' = stdout \o Report(pred_y.criterion)
                 /\ Step(r, "confusion_matrix", pred_y.criterion, "file_create")
                 /\ UNCHANGED ret
            ELSE /\ ReturnErr(r, "confusion_matrix", pred_y.criterion)
                 /\ UNCHANGED <<stdout, status>>
    /\ UNCHANGED <<input, rng, dataset, train, test, scaler, train_pre,
                   test_pre, gini_model, entropy_model, pred_y, file_at_entry>>

\* let cm = entropy_pred_y.confusion_matrix(&test)?; and the three println!
EntropyConfusionMatrix(r) ==
    /\ InRoutine(r, "entropy_cm")
    /\ \E ok \in BOOLEAN :
        IF ok
            THEN /\ stdout' = stdout \o Report(pred_y.criterion)
                 /\ Step(r, "confusion_matrix", pred_y.criterion, "file_create")
                 /\ UNCHANGED ret
            ELSE /\ ReturnErr(r, "confusion_matrix", pred_y.criterion)
                 /\ UNCHANGED <<stdout, status>>
    /\ UNCHANGED <<input, file, rng, dataset, train, test, scaler, train_pre,
                   test_pre, gini_model, entropy_model, pred_y, file_at_entry>>

-----------------------------------------------------------------------------
(* Report emitter *)

\* (scaled: println of the dashes)
\* let mut tikz = File::create("decision_tree_example.tex").unwrap();
FileCreate(r) ==
    /\ InRoutine(r, "file_create")
    /\ stdout' = IF r = "scaled" THEN Append(stdout, Line("dashes", "none"))
                                 ELSE stdout
    /\ \E ok \in BOOLEAN :
        IF ok
            THEN /\ file' = [exists |-> TRUE, content |-> <<>>]
                 /\ Step(r, "create", "none", "file_write")
            ELSE /\ Panic(r, "create", "none")
                 /\ UNCHANGED file
    /\ UNCHANGED <<input, rng, dataset, train, test, scaler, train_pre,
                   test_pre, gini_model, entropy_model, pred_y, ret,
                   file_at_entry>>

\* Faulty variant: the Entropy tree is written instead.
ReportedModelEntropy(r) == entropy_model[r]

\* The model whose description the routine writes.
ReportedModel(r) == gini_model[r]

\* tikz.write_all(gini_model.export_to_tikz()...as_bytes()).unwrap();
\* println of the latex hint; Ok(())
FileWrite(r) ==
    /\ InRoutine(r, "file_write")
    /\ \E ok \in BOOLEAN :
        IF ok
            THEN /\ file' = [exists |-> TRUE,
                             content |-> <<export_to_tikz(ReportedModel(r))>>]
                 /\ stdout' = Append(stdout, Line("latex hint", "Gini"))
                 /\ ret' = [ret EXCEPT ![r] = "Ok"]
                 /\ cur' = "main"
                 /\ pc' = AfterCall(r)
                 /\ trace' = Append(trace, Event(r, "write", "none", TRUE))
                 /\ UNCHANGED status
            ELSE /\ Panic(r, "write", "none")
                 /\ UNCHANGED <<file, stdout, ret>>
    /\ UNCHANGED <<input, rng, dataset, train, test, scaler, train_pre,
                   test_pre, gini_model, entropy_model, pred_y, file_at_entry>>

-----------------------------------------------------------------------------
(* Specification *)

Next ==
    \/ MainCallScaled
    \/ MainCallUnscaled
    \/ MainExit
    \/ \E r \in Routines : SeedRng(r)
    \/ \E r \in Routines : Load(r)
    \/ \E r \in Routines : Shuffle(r)
    \/ \E r \in Routines : Split(r)
    \/ ScalerFit
    \/ TransformTrain
    \/ TransformTest
    \/ \E r \in Routines : GiniFit(r)
    \/ \E r \in Routines : GiniPredict(r)
    \/ \E r \in Routines : GiniConfusionMatrix(r)
    \/ \E r \in Routines : EntropyFit(r)
    \/ \E r \in Routines : EntropyPredict(r)
    \/ \E r \in Routines : EntropyConfusionMatrix(r)
    \/ \E r \in Routines : FileCreate(r)
    \/ \E r \in Routines : FileWrite(r)

Spec == Init /\ [][Next]_vars

-----------------------------------------------------------------------------
(* Properties *)

Events(r, stage) ==
    SelectSeq(trace, LAMBDA e : e.routine = r /\ e.stage = stage)

\* Stage `stage` of routine r has run and succeeded.
Did(r, stage) == \E i \in 1..Len(trace) : trace[i] = Event(r, stage, "none", TRUE)

DidTransform(part) ==
    \E i \in 1..Len(trace) : trace[i] = Event("scaled", "transform", part, TRUE)

Failed == \E i \in 1..Len(trace) : ~trace[i].ok

Range(s) == { s[i] : i \in 1..Len(s) }

IsSorted(s) == \A i \in 1..(Len(s) - 1) : s[i] < s[i + 1]

C3_SameSplit ==
    (Did("scaled", "split") /\ Did("unscaled", "split")) =>
        /\ train["scaled"] = train["unscaled"]
        /\ test["scaled"] = test["unscaled"]

C3_Witness ==
    /\ Did("scaled", "split")
    /\ Did("unscaled", "split")
    /\ ~IsSorted(train["unscaled"].ids)
    /\ nsamples(test["unscaled"]) >= 1

\* C4 as stated: a failed stage is the last stage executed, and the process
\* does not end in success after a failure.
C4_FailFast ==
    /\ \A i \in 1..Len(trace) : ~trace[i].ok => i = Len(trace)
    /\ Failed => status # "exit_ok"

\* C5 as stated: a run without failure has executed the fit contract twice.
C5_TwoFits ==
    (status = "exit_ok" /\ ~Failed) =>
        Len(SelectSeq(trace, LAMBDA e : e.stage = "fit")) = 2

Details(evs) == [i \in 1..Len(evs) |-> evs[i].detail]

\* C5 amended: each routine that returns Ok has run fit, predict and
\* confusion matrix exactly twice, for Gini then Entropy, both trees fitted
\* on that routine's training data and scored on its test data; a run
\* without failure has run the contract four times.
C5_TwoFitsPerRoutine ==
    /\ \A r \in Routines :
        ret[r] = "Ok" =>
            /\ Details(Events(r, "fit")) = <<"Gini", "Entropy">>
            /\ Details(Events(r, "predict")) = <<"Gini", "Entropy">>
            /\ Details(Events(r, "confusion_matrix")) = <<"Gini", "Entropy">>
            /\ gini_model[r].fitted_on = TrainOf(r)
            /\ entropy_model[r].fitted_on = TrainOf(r)
    /\ \A r \in Routines :
        (cur = r /\ pc \in {"gini_cm", "entropy_cm"}) =>
            /\ pred_y.rows = TestOf(r).ids
            /\ pred_y.criterion = IF pc = "gini_cm" THEN "Gini" ELSE "Entropy"
    /\ (status = "exit_ok" /\ ~Failed) =>
            Len(SelectSeq(trace, LAMBDA e : e.stage = "fit")) = 4

C5_Witness ==
    /\ status = "exit_ok"
    /\ ~Failed
    /\ nsamples(test["scaled"]) >= 1

\* The rows of a dataset are those of `from`, in order; only the feature
\* values may differ.
SameFrame(out, from) ==
    /\ out.ids = from.ids
    /\ out.targets = from.targets
    /\ out.feature_names = from.feature_names
    /\ nsamples(out) = nsamples(from)

ScaledBy(sc, out, from) ==
    \A i \in 1..nsamples(from) : \A j \in 1..NFeatures :
        out.records[i][j] =
            ScaleValue(from.records[i][j], sc.offsets[j], sc.scales[j])

\* m is the mean of col, rounded down.
IsMean(m, col) ==
    /\ m * Len(col) <= SumSeq(col)
    /\ (m + 1) * Len(col) > SumSeq(col)

\* The scaled routine is running or has just returned to main: the time its
\* locals scaler, train_pre and test_pre exist.
ScaledScope == cur = "scaled" \/ (cur = "main" /\ pc = AfterCall("scaled"))

\* C6: the scaler is fitted once, before any transform, and from then on to
\* the routine's return its state is the column statistics of the train
\* partition alone; train_pre and test_pre are train and test scaled by that
\* state, with ids, targets, feature names and sample count as in the input.
C6_ScalerFromTrainOnly ==
    /\ Len(Events("scaled", "scaler_fit")) <= 1
    /\ (Events("scaled", "transform") # <<>>) => Did("scaled", "scaler_fit")
    /\ \A i \in 1..Len(trace) :
        (trace[i].stage = "transform") =>
            \E k \in 1..(i - 1) : trace[k].stage = "scaler_fit" /\ trace[k].ok
    /\ (ScaledScope /\ Did("scaled", "scaler_fit")) =>
        \A j \in 1..NFeatures :
            LET col == Column(train["scaled"], j)
                sd == StdDev(col)
            IN /\ IsMean(scaler.offsets[j], col)
               /\ scaler.scales[j] = IF sd = 0 THEN Unit ELSE sd
    /\ (ScaledScope /\ DidTransform("train")) =>
        /\ SameFrame(train_pre, train["scaled"])
        /\ ScaledBy(scaler, train_pre, train["scaled"])
    /\ (ScaledScope /\ DidTransform("test")) =>
        /\ SameFrame(test_pre, test["scaled"])
        /\ ScaledBy(scaler, test_pre, test["scaled"])

\* Both partitions transformed, the test partition holding a feature value
\* that would move the train statistics, and the transform changing values.
C6_Witness ==
    /\ ScaledScope
    /\ DidTransform("test")
    /\ nsamples(test["scaled"]) >= 1
    /\ test_pre.records # test["scaled"].records
    /\ train_pre.records # train["scaled"].records
    /\ LinearScalerFit(FitInputAll(train["scaled"], test["scaled"])) # scaler

\* C7 as stated: loading succeeds only if every label is finite and not
\* negative; otherwise it signals an error instead of a class index.
C7_LabelCastError ==
    \A r \in Routines :
        Did(r, "load") =>
            \A i \in 1..Len(input.rows) :
                ~input.rows[i].y.nan /\ input.rows[i].y.v >= 0

Written(r) ==
    \E i \in 1..Len(trace) : trace[i] = Event(r, "write", "none", TRUE)
Created(r) ==
    \E i \in 1..Len(trace) : trace[i].routine = r /\ trace[i].stage = "create"

\* C9: when main has ended and the unscaled routine returned Ok, the file
\* holds exactly the description of the unscaled routine's Gini tree; until
\* the unscaled routine creates the file again, a scaled routine that
\* returned Ok has left its own Gini tree there.
C9_FinalReport ==
    /\ (status = "exit_ok" /\ ret["unscaled"] = "Ok") =>
        /\ file = [exists |-> TRUE,
                   content |-> <<export_to_tikz(gini_model["unscaled"])>>]
        /\ gini_model["unscaled"].criterion = "Gini"
        /\ gini_model["unscaled"].fitted_on = train["unscaled"]
    /\ (ret["scaled"] = "Ok" /\ ~Created("unscaled")) =>
        /\ file = [exists |-> TRUE,
                   content |-> <<export_to_tikz(gini_model["scaled"])>>]
        /\ gini_model["scaled"].criterion = "Gini"
        /\ gini_model["scaled"].fitted_on = train_pre

\* The run ended without failure and the second report replaced a different
\* one written by the first routine.
C9_Witness ==
    /\ status = "exit_ok"
    /\ ~Failed
    /\ Written("scaled")
    /\ file_at_entry["unscaled"] =
            [exists |-> TRUE, content |-> <<export_to_tikz(gini_model["scaled"])>>]
    /\ file # file_at_entry["unscaled"]

\* C10: a routine that returned Err never created or wrote the file, and
\* when it hands the error to main the file is as it was at its entry.
C10_ErrLeavesFile ==
    \A r \in Routines :
        ret[r] = "Err" =>
            /\ ~Created(r)
            /\ ~Written(r)
            /\ (cur = "main" /\ pc = AfterCall(r)) => file = file_at_entry[r]

\* The unscaled routine fails at its last `?` with the first routine's
\* report on disk.
C10_Witness ==
    /\ ret["unscaled"] = "Err"
    /\ cur = "main" /\ pc = "line201"
    /\ trace[Len(trace)] = Event("unscaled", "confusion_matrix", "Entropy", FALSE)
    /\ Written("scaled")
    /\ file = file_at_entry["unscaled"]

====
